---- MODULE Spec2Model ----
(***************************************************************************)
(* Order matching engine of xlogn/trading_engine: OrderOrch (engine.py)    *)
(* and the HTTP handlers that drive it (main.py).                          *)
(*                                                                         *)
(* Python objects are modelled by identity: `orders` is the store of Order *)
(* objects, an Order is named by its index in it, and heaps, the parked    *)
(* list and trades hold such indices (references), exactly as the Python   *)
(* containers hold references to the same mutable Order objects.           *)
(* The heaps are the arrays heapq maintains (1-based here), with heapq's   *)
(* own sift algorithms.  One add_order call is a process: its position     *)
(* `pc` is "idle" (no call running), "inner" (at the test of the inner     *)
(* while, engine.py:85) or "end_pass" (at the for of engine.py:130).       *)
(* The fields type_op and pair of an Order are never read by the engine    *)
(* and are left out.  Callers assign distinct order identifiers.           *)
(***************************************************************************)
EXTENDS Integers, Sequences, FiniteSets, TLC

\* number of orders submitted in a run (safety) and in a run checked for
\* termination; _counter is capped above every value a run can reach
MaxOrders == 4
MaxLiveOrders == 3
MaxCounter == 60

\* the validated requests (OrderIn: amount > 0, limit_price > 0)
Accounts == {1, 2}
Prices == {1, 2}
Amounts == {1, 2}
Sides == {"BUY", "SELL"}

VARIABLES orders, order_in, buy_heap, sell_heap, trades, order_book, _counter,
          removed_for_matching, trade_occurred, pc, account_ids_set, response

vars == <<orders, order_in, buy_heap, sell_heap, trades, order_book, _counter,
          removed_for_matching, trade_occurred, pc, account_ids_set, response>>

\* the state of the engine and of the API module, without the reply in flight
engine_vars == <<orders, order_in, buy_heap, sell_heap, trades, order_book, _counter,
                 removed_for_matching, trade_occurred, pc, account_ids_set>>

Min(a, b) == IF a <= b THEN a ELSE b

Max(a, b) == IF a >= b THEN a ELSE b

RECURSIVE SumSeq(_)
SumSeq(s) == IF s = <<>> THEN 0 ELSE Head(s) + SumSeq(Tail(s))

IsPrefix(s, t) == Len(s) <= Len(t) /\ SubSeq(t, 1, Len(s)) = s

\* ---- dataclasses ----

Order(acct, amt, oid, price, side) ==
    [account_id |-> acct, amount |-> amt, order_id |-> oid,
     limit_price |-> price, side |-> side]

HeapItem(priority, count, o) == [priority |-> priority, count |-> count, order |-> o]

\* variant: count is left out of the comparison as well
HeapItemLtPriorityOnly(x, y) == x.priority < y.priority

\* dataclass(order=True) compares (priority, count); order is compare=False
HeapItemLt(x, y) ==
    \/ x.priority < y.priority
    \/ x.priority = y.priority /\ x.count < y.count

Trade(b, s, qty, price) ==
    [buy_order |-> b, sell_order |-> s, amount_traded |-> qty, selling_price |-> price]

OrderBookEntry(oid, side, amt, price, acct) ==
    [order_id |-> oid, side |-> side, amount |-> amt, price |-> price, account_id |-> acct]

\* ---- heapq ----

Swap(h, i, j) == [h EXCEPT ![i] = h[j], ![j] = h[i]]

\* heapq._siftdown: move the item at pos up towards startpos while it is
\* smaller than its parent
RECURSIVE _siftdown(_, _, _)
_siftdown(h, startpos, pos) ==
    IF pos > startpos /\ HeapItemLt(h[pos], h[pos \div 2])
    THEN _siftdown(Swap(h, pos, pos \div 2), startpos, pos \div 2)
    ELSE h

\* heapq._siftup: bubble the smaller child up until a leaf is reached, then
\* sift the displaced item down from there
RECURSIVE _siftup(_, _, _)
_siftup(h, startpos, pos) ==
    LET childpos == 2 * pos
        rightpos == childpos + 1
        c == IF rightpos <= Len(h) /\ ~HeapItemLt(h[childpos], h[rightpos])
             THEN rightpos ELSE childpos
    IN  IF childpos <= Len(h)
        THEN _siftup(Swap(h, pos, c), startpos, c)
        ELSE _siftdown(h, startpos, pos)

heappush(h, item) == _siftdown(Append(h, item), 1, Len(h) + 1)

\* the heap array left by heapq.heappop
heappop_rest(h) ==
    LET lastelt == h[Len(h)]
        rest == SubSeq(h, 1, Len(h) - 1)
    IN  IF rest = <<>> THEN rest ELSE _siftup([rest EXCEPT ![1] = lastelt], 1, 1)

\* the item returned by heapq.heappop
heappop_item(h) == h[1]

\* ---- OrderOrch ----

\* OrderOrch._pop_order: the Order of the popped HeapItem
_pop_order(h) == heappop_item(h).order

\* the engine's heaps and counter, threaded through successive pushes
Book(bh, sh, c) == [buy_heap |-> bh, sell_heap |-> sh, _counter |-> c]

\* variant: the counter is not advanced before stamping
_push_order_stale(bk, ords, o) ==
    LET c == bk._counter
    IN  IF ords[o].side = "BUY"
        THEN Book(heappush(bk.buy_heap, HeapItem(-ords[o].limit_price, c, o)),
                  bk.sell_heap, c)
        ELSE Book(bk.buy_heap,
                  heappush(bk.sell_heap, HeapItem(ords[o].limit_price, c, o)), c)

\* OrderOrch._push_order (add_order inserts the same way)
_push_order(bk, ords, o) ==
    LET c == bk._counter + 1
    IN  IF ords[o].side = "BUY"
        THEN Book(heappush(bk.buy_heap, HeapItem(-ords[o].limit_price, c, o)),
                  bk.sell_heap, c)
        ELSE Book(bk.buy_heap,
                  heappush(bk.sell_heap, HeapItem(ords[o].limit_price, c, o)), c)

\* for o in removed_for_matching: self._push_order(o)
RECURSIVE PushAll(_, _, _)
PushAll(bk, ords, os) ==
    IF os = <<>> THEN bk ELSE PushAll(_push_order(bk, ords, Head(os)), ords, Tail(os))

\* variant: the same-account test is missing
SameAccountNever(ords, b, s) == FALSE

\* if buy.account_id == sell.account_id
SameAccount(ords, b, s) == ords[b].account_id = ords[s].account_id

\* if buy.limit_price >= sell.limit_price
Crosses(ords, b, s) == ords[b].limit_price >= ords[s].limit_price

\* variant: the larger of the two amounts is traded
QtyMax(ords, b, s) == Max(ords[b].amount, ords[s].amount)

\* qty = min(buy.amount, sell.amount)
Qty(ords, b, s) == Min(ords[b].amount, ords[s].amount)

\* variant: the order that was submitted first sets the price
TradePriceResting(ords, b, s) == IF b < s THEN ords[b].limit_price ELSE ords[s].limit_price

\* price = sell.limit_price
TradePrice(ords, b, s) == ords[s].limit_price

\* variant: a remainder is never pushed back
HasRemainderNever(amt) == FALSE

\* variant: the remainder test is >= 0
HasRemainderOrZero(amt) == amt >= 0

\* if buy.amount > 0 / if sell.amount > 0
HasRemainder(amt) == amt > 0

\* variant: only the buy order is decremented
FillBuyOnly(ords, b, s, qty) == [ords EXCEPT ![b].amount = @ - qty]

\* buy.amount -= qty; sell.amount -= qty
Fill(ords, b, s, qty) == [ords EXCEPT ![b].amount = @ - qty, ![s].amount = @ - qty]

\* variant: the skipped buy is not kept
ParkDrop(parked, b) == parked

\* removed_for_matching.append(buy)
Park(parked, b) == Append(parked, b)

\* variant: the trade is inserted at the front of the ledger
RecordTradeFront(trs, t) == <<t>> \o trs

\* self.trades.append(trade)
RecordTrade(trs, t) == Append(trs, t)

\* variant: the sell-side entry is appended before the buy-side entry
RecordEntriesSellFirst(book, ords, b, s, qty, price) ==
    book \o << OrderBookEntry(ords[s].order_id, ords[s].side, qty, price, ords[s].account_id),
               OrderBookEntry(ords[b].order_id, ords[b].side, qty, price, ords[b].account_id) >>

\* the two order_book.append calls
RecordEntries(book, ords, b, s, qty, price) ==
    book \o << OrderBookEntry(ords[b].order_id, ords[b].side, qty, price, ords[b].account_id),
               OrderBookEntry(ords[s].order_id, ords[s].side, qty, price, ords[s].account_id) >>

\* variant: the outer loop has no break
StopAfterPassNever(traded) == FALSE

\* if not trade_occurred: break
StopAfterPass(traded) == ~traded

Init ==
    /\ orders = <<>>
    /\ order_in = <<>>
    /\ buy_heap = <<>>
    /\ sell_heap = <<>>
    /\ trades = <<>>
    /\ order_book = <<>>
    /\ _counter = 0
    /\ removed_for_matching = <<>>
    /\ trade_occurred = FALSE
    /\ pc = "idle"
    /\ account_ids_set = {}
    /\ response = <<>>

\* POST /orders: build the Order, add_order inserts it and enters _match_orders
create_order(acct, amt, price, side) ==
    /\ pc = "idle"
    /\ LET o == Len(orders) + 1
           ords == Append(orders, Order(acct, amt, o, price, side))
           bk == _push_order(Book(buy_heap, sell_heap, _counter), ords, o)
       IN  /\ orders' = ords
           /\ order_in' = Append(order_in, Order(acct, amt, o, price, side))
           /\ buy_heap' = bk.buy_heap
           /\ sell_heap' = bk.sell_heap
           /\ _counter' = bk._counter
    /\ removed_for_matching' = <<>>
    /\ trade_occurred' = FALSE
    /\ pc' = "inner"
    /\ response' = <<>>
    /\ UNCHANGED <<trades, order_book, account_ids_set>>

\* an inner iteration can start: both heaps are non-empty
CanPop == pc = "inner" /\ buy_heap # <<>> /\ sell_heap # <<>> /\ _counter < MaxCounter

\* inner iteration, same account: park the buy, push the sell back
SkipSameAccount ==
    /\ CanPop
    /\ LET buy == _pop_order(buy_heap)
           sell == _pop_order(sell_heap)
           bk == _push_order(Book(heappop_rest(buy_heap), heappop_rest(sell_heap), _counter),
                             orders, sell)
       IN  /\ SameAccount(orders, buy, sell)
           /\ removed_for_matching' = Park(removed_for_matching, buy)
           /\ buy_heap' = bk.buy_heap
           /\ sell_heap' = bk.sell_heap
           /\ _counter' = bk._counter
    /\ UNCHANGED <<orders, order_in, trades, order_book, trade_occurred, pc,
                   account_ids_set, response>>

\* inner iteration, prices cross: record the trade and the two entries,
\* decrement both orders, push back what remains
ExecuteTrade ==
    /\ CanPop
    /\ LET buy == _pop_order(buy_heap)
           sell == _pop_order(sell_heap)
           qty == Qty(orders, buy, sell)
           price == TradePrice(orders, buy, sell)
           ords == Fill(orders, buy, sell, qty)
           bk0 == Book(heappop_rest(buy_heap), heappop_rest(sell_heap), _counter)
           bk1 == IF HasRemainder(ords[buy].amount) THEN _push_order(bk0, ords, buy) ELSE bk0
           bk2 == IF HasRemainder(ords[sell].amount) THEN _push_order(bk1, ords, sell) ELSE bk1
       IN  /\ ~SameAccount(orders, buy, sell)
           /\ Crosses(orders, buy, sell)
           /\ trades' = RecordTrade(trades, Trade(buy, sell, qty, price))
           /\ order_book' = RecordEntries(order_book, orders, buy, sell, qty, price)
           /\ orders' = ords
           /\ buy_heap' = bk2.buy_heap
           /\ sell_heap' = bk2.sell_heap
           /\ _counter' = bk2._counter
    /\ trade_occurred' = TRUE
    /\ UNCHANGED <<order_in, removed_for_matching, pc, account_ids_set, response>>

\* inner iteration, no price match: put both back and break
NoCross ==
    /\ CanPop
    /\ LET buy == _pop_order(buy_heap)
           sell == _pop_order(sell_heap)
           bk0 == Book(heappop_rest(buy_heap), heappop_rest(sell_heap), _counter)
           bk == _push_order(_push_order(bk0, orders, buy), orders, sell)
       IN  /\ ~SameAccount(orders, buy, sell)
           /\ ~Crosses(orders, buy, sell)
           /\ buy_heap' = bk.buy_heap
           /\ sell_heap' = bk.sell_heap
           /\ _counter' = bk._counter
    /\ pc' = "end_pass"
    /\ UNCHANGED <<orders, order_in, trades, order_book, removed_for_matching,
                   trade_occurred, account_ids_set, response>>

\* the inner while test fails: a heap is empty
InnerExit ==
    /\ pc = "inner"
    /\ buy_heap = <<>> \/ sell_heap = <<>>
    /\ pc' = "end_pass"
    /\ UNCHANGED <<orders, order_in, buy_heap, sell_heap, trades, order_book, _counter,
                   removed_for_matching, trade_occurred, account_ids_set, response>>

\* re-insert the parked orders; a trade occurred, so start another pass
EndPassRepeat ==
    /\ pc = "end_pass"
    /\ _counter < MaxCounter
    /\ ~StopAfterPass(trade_occurred)
    /\ LET bk == PushAll(Book(buy_heap, sell_heap, _counter), orders, removed_for_matching)
       IN  /\ buy_heap' = bk.buy_heap
           /\ sell_heap' = bk.sell_heap
           /\ _counter' = bk._counter
    /\ removed_for_matching' = <<>>
    /\ trade_occurred' = FALSE
    /\ pc' = "inner"
    /\ UNCHANGED <<orders, order_in, trades, order_book, account_ids_set, response>>

\* re-insert the parked orders; no trade occurred, so _match_orders and
\* add_order return, and create_order records the account
EndPassReturn ==
    /\ pc = "end_pass"
    /\ _counter < MaxCounter
    /\ StopAfterPass(trade_occurred)
    /\ LET bk == PushAll(Book(buy_heap, sell_heap, _counter), orders, removed_for_matching)
       IN  /\ buy_heap' = bk.buy_heap
           /\ sell_heap' = bk.sell_heap
           /\ _counter' = bk._counter
    /\ removed_for_matching' = <<>>
    /\ account_ids_set' = account_ids_set \cup {orders[Len(orders)].account_id}
    /\ pc' = "idle"
    /\ UNCHANGED <<orders, order_in, trades, order_book, trade_occurred, response>>

\* the PendingOrder built from an Order (main.py:98-105)
PendingOrder(o) ==
    [order_id |-> o.order_id, account_id |-> o.account_id, side |-> o.side,
     amount |-> o.amount, limit_price |-> o.limit_price]

\* for item in heap: if item.order.account_id == acct: pending.append(...)
RECURSIVE ScanHeap(_, _, _)
ScanHeap(h, ords, acct) ==
    IF h = <<>> THEN <<>>
    ELSE (IF ords[Head(h).order].account_id = acct
          THEN <<PendingOrder(ords[Head(h).order])>> ELSE <<>>)
         \o ScanHeap(Tail(h), ords, acct)

\* variant: only the buy heap is scanned
PendingOfBuyHeapOnly(bh, sh, ords, acct) == ScanHeap(bh, ords, acct)

\* the list built for one account: the buy heap's orders, then the sell heap's
PendingOf(bh, sh, ords, acct) == ScanHeap(bh, ords, acct) \o ScanHeap(sh, ords, acct)

\* the dictionary returned by GET /orders/pending
list_all_pending_orders(accts, bh, sh, ords) ==
    [acct \in accts |-> PendingOf(bh, sh, ords, acct)]

\* GET /orders/pending, served between two submissions; the reply is held in
\* `response` until the next request
GetPending ==
    /\ pc = "idle"
    /\ response' = <<list_all_pending_orders(account_ids_set, buy_heap, sell_heap, orders)>>
    /\ UNCHANGED engine_vars

\* the steps of a running add_order call
MatchStep ==
    \/ SkipSameAccount
    \/ ExecuteTrade
    \/ NoCross
    \/ InnerExit
    \/ EndPassRepeat
    \/ EndPassReturn

\* a client submits one more validated order (amount > 0, limit_price > 0)
Submit(limit) ==
    /\ Len(orders) < limit
    /\ \E acct \in Accounts, amt \in Amounts, price \in Prices, side \in Sides :
          create_order(acct, amt, price, side)

Next ==
    \/ Submit(MaxOrders)
    \/ GetPending
    \/ SkipSameAccount
    \/ ExecuteTrade
    \/ NoCross
    \/ InnerExit
    \/ EndPassRepeat
    \/ EndPassReturn

Spec == Init /\ [][Next]_vars

LiveNext ==
    \/ Submit(MaxLiveOrders)
    \/ SkipSameAccount
    \/ ExecuteTrade
    \/ NoCross
    \/ InnerExit
    \/ EndPassRepeat
    \/ EndPassReturn

\* add_order is synchronous: a running call keeps taking its steps
LiveSpec == Init /\ [][LiveNext]_vars /\ WF_vars(MatchStep)

\* ---- well-formedness of the model ----

HeapOrdered(h) == \A i \in 2..Len(h) : ~HeapItemLt(h[i], h[i \div 2])

TypeOK ==
    /\ pc \in {"idle", "inner", "end_pass"}
    /\ HeapOrdered(buy_heap) /\ HeapOrdered(sell_heap)
    /\ \A i \in 1..Len(buy_heap) : orders[buy_heap[i].order].side = "BUY"
    /\ \A i \in 1..Len(sell_heap) : orders[sell_heap[i].order].side = "SELL"

\* the cap on _counter in the guards never stops a step of the engine
CounterBelowCap == _counter < MaxCounter

\* ---- queries ----

\* GET /trades: each trade with the current __dict__ of the Order objects it
\* references
list_trades(trs, ords) ==
    [i \in 1..Len(trs) |->
        [buy_order |-> ords[trs[i].buy_order], sell_order |-> ords[trs[i].sell_order],
         amount_traded |-> trs[i].amount_traded, selling_price |-> trs[i].selling_price]]

\* ---- vocabulary of the properties ----

BuyOf(i) == orders[trades[i].buy_order]

SellOf(i) == orders[trades[i].sell_order]

Resting(h) == {h[i].order : i \in 1..Len(h)}

\* the quantity traded on order o by the trades of ledger trs
RECURSIVE Filled(_, _)
Filled(trs, o) ==
    IF trs = <<>> THEN 0
    ELSE (IF Head(trs).buy_order = o \/ Head(trs).sell_order = o
          THEN Head(trs).amount_traded ELSE 0) + Filled(Tail(trs), o)

TotalOutstanding == SumSeq([o \in 1..Len(orders) |-> orders[o].amount])

\* a step that records a trade
TradeRecorded == Len(trades') = Len(trades) + 1

\* the immutable part of a trade: ids, sides, accounts, quantity, price
TradeView(trs, ords) ==
    [i \in 1..Len(trs) |->
        [buy_id |-> ords[trs[i].buy_order].order_id,
         buy_side |-> ords[trs[i].buy_order].side,
         buy_account |-> ords[trs[i].buy_order].account_id,
         sell_id |-> ords[trs[i].sell_order].order_id,
         sell_side |-> ords[trs[i].sell_order].side,
         sell_account |-> ords[trs[i].sell_order].account_id,
         amount_traded |-> trs[i].amount_traded,
         selling_price |-> trs[i].selling_price]]

\* ---- properties ----

\* C1: no trade in the ledger has a buy order and a sell order of the same
\* account.
C1_NoSelfTrade ==
    \A i \in 1..Len(trades) : BuyOf(i).account_id # SellOf(i).account_id

\* C1 case: a trade was recorded in a pass in which a buy was parked by a
\* same-account skip.
C1_Witness ==
    /\ trade_occurred
    /\ removed_for_matching # <<>>
    /\ Len(trades) > 0

\* C2: every recorded trade has buy.limit_price >= sell.limit_price and its
\* selling_price is the sell order's limit price, whichever order came first.
C2_TradePricing ==
    \A i \in 1..Len(trades) :
        /\ BuyOf(i).limit_price >= SellOf(i).limit_price
        /\ trades[i].selling_price = SellOf(i).limit_price

\* C2 case: the ledger holds a trade whose buy was submitted first and one
\* whose sell was submitted first, both with buy price above sell price.
C2_Witness ==
    /\ \E i \in 1..Len(trades) :
          /\ trades[i].buy_order < trades[i].sell_order
          /\ BuyOf(i).limit_price > SellOf(i).limit_price
    /\ \E i \in 1..Len(trades) :
          /\ trades[i].sell_order < trades[i].buy_order
          /\ BuyOf(i).limit_price > SellOf(i).limit_price

\* C3: after add_order returns no further matching is possible: no resting
\* buy and resting sell of different accounts have buy price >= sell price.
C3_NoFurtherMatch ==
    pc = "idle" =>
        ~\E b \in Resting(buy_heap), s \in Resting(sell_heap) :
            /\ orders[b].account_id # orders[s].account_id
            /\ orders[b].limit_price >= orders[s].limit_price

\* C4: every add_order call terminates (the engine is idle again and again,
\* so no call runs forever); each same-account skip takes one buy out of the
\* buy heap, no step of a pass before its end puts more buys into it, and each
\* trade strictly decreases the total outstanding amount.
C4_Terminates ==
    /\ []<>(pc = "idle")
    /\ [][SkipSameAccount => Len(buy_heap') = Len(buy_heap) - 1]_vars
    /\ [][pc = "inner" /\ pc' = "inner" => Len(buy_heap') <= Len(buy_heap)]_vars
    /\ [][TradeRecorded => TotalOutstanding' < TotalOutstanding]_vars
    /\ [][TotalOutstanding' <= TotalOutstanding \/ pc = "idle"]_vars

\* C4 case: the loop is running, and in this pass a buy has been parked and a
\* trade has been made.
C4_Witness ==
    /\ pc = "inner"
    /\ removed_for_matching # <<>>
    /\ trade_occurred

\* C5: no trade fills an order O while an order O2 of the same side and the
\* same limit price, submitted before O, never partially filled, of an
\* account other than the counterparty's, is resting.
C5_TimePriority ==
    [][TradeRecorded =>
         LET t == trades'[Len(trades')]
         IN  /\ \A o2 \in Resting(buy_heap) :
                   ~ /\ o2 < t.buy_order
                     /\ orders[o2].limit_price = orders[t.buy_order].limit_price
                     /\ orders[o2].amount = order_in[o2].amount
                     /\ orders[o2].account_id # orders[t.sell_order].account_id
             /\ \A o2 \in Resting(sell_heap) :
                   ~ /\ o2 < t.sell_order
                     /\ orders[o2].limit_price = orders[t.sell_order].limit_price
                     /\ orders[o2].amount = order_in[o2].amount
                     /\ orders[o2].account_id # orders[t.buy_order].account_id
      ]_vars

\* C6: for every submitted order the sum of amount_traded over the trades
\* that reference it never exceeds the amount it was submitted with.
C6_FillBound ==
    \A o \in 1..Len(orders) : Filled(trades, o) <= order_in[o].amount

\* C6 case: an order has been filled up to its submitted amount by more than
\* one trade.
C6_Witness ==
    \E o \in 1..Len(orders) :
        /\ Filled(trades, o) = order_in[o].amount
        /\ Cardinality({i \in 1..Len(trades) :
                           trades[i].buy_order = o \/ trades[i].sell_order = o}) >= 2

\* C7: once a trade is in the ledger, nothing of what list_trades returns for
\* it changes, the amount of its buy_order and sell_order included.
C7_TradeSnapshot ==
    [][\A i \in 1..Len(trades) :
          list_trades(trades', orders')[i] = list_trades(trades, orders)[i]]_vars

\* C8: both ledgers are append-only: over every step the earlier value of the
\* trade ledger (ids, sides, accounts, quantities, prices) and of the
\* order-book ledger is a prefix of the later value.
C8_AppendOnly ==
    [][/\ IsPrefix(TradeView(trades, orders), TradeView(trades', orders'))
       /\ IsPrefix(order_book, order_book')]_vars

\* C8 case: both ledgers have been extended more than once.
C8_Witness ==
    /\ Len(trades) >= 2
    /\ Len(order_book) >= 4
    /\ trades[1] # trades[2]

\* C9: when add_order has returned, the order book has two entries per trade,
\* the buy-side entry then the sell-side entry of the trade, each with the
\* trade's order id, side, account, quantity and price.
C9_TwoEntriesPerTrade ==
    pc = "idle" =>
        /\ Len(order_book) = 2 * Len(trades)
        /\ \A i \in 1..Len(trades) :
              /\ order_book[2 * i - 1] =
                    OrderBookEntry(BuyOf(i).order_id, "BUY", trades[i].amount_traded,
                                   trades[i].selling_price, BuyOf(i).account_id)
              /\ order_book[2 * i] =
                    OrderBookEntry(SellOf(i).order_id, "SELL", trades[i].amount_traded,
                                   trades[i].selling_price, SellOf(i).account_id)

\* C9 case: add_order has returned with trades in the ledger.
C9_Witness ==
    /\ pc = "idle"
    /\ Len(trades) >= 2

\* C10: every order in a heap has amount > 0, and an order whose amount is
\* zero is in no heap and is in none after any later step.
C10_ResidentPositive ==
    /\ [](\A o \in Resting(buy_heap) \cup Resting(sell_heap) : orders[o].amount > 0)
    /\ [][\A o \in 1..Len(orders) :
             orders[o].amount = 0 =>
                 /\ orders'[o].amount = 0
                 /\ \A i \in 1..Len(buy_heap') : buy_heap'[i].order # o
                 /\ \A i \in 1..Len(sell_heap') : sell_heap'[i].order # o]_vars

\* C10 case: a fully filled order exists while a partially filled order and
\* another order rest, after a later submission.
C10_Witness ==
    /\ pc = "idle"
    /\ \E o \in 1..Len(orders) : orders[o].amount = 0 /\ o < Len(orders) - 1
    /\ \E o \in Resting(buy_heap) \cup Resting(sell_heap) :
          orders[o].amount < order_in[o].amount
    /\ Len(buy_heap) + Len(sell_heap) >= 2


\* the number of items of heap h that hold order o
Copies(h, o) == Cardinality({i \in 1..Len(h) : h[i].order = o})

\* C11: when add_order has returned, every submitted order with amount > 0 is
\* exactly once in the heap of its own side and not in the other, parked buys
\* included; a BUY and a crossing SELL of one account, submitted alone, both
\* rest with their submitted amounts and no trade is made.
C11_NoOrderLost ==
    pc = "idle" =>
        /\ \A o \in 1..Len(orders) :
              orders[o].amount > 0 =>
                  /\ Copies(buy_heap, o) = (IF orders[o].side = "BUY" THEN 1 ELSE 0)
                  /\ Copies(sell_heap, o) = (IF orders[o].side = "SELL" THEN 1 ELSE 0)
        /\ ( /\ Len(orders) = 2
             /\ order_in[1].account_id = order_in[2].account_id
             /\ order_in[1].side = "BUY" /\ order_in[2].side = "SELL"
             /\ order_in[1].limit_price >= order_in[2].limit_price )
           => /\ trades = <<>>
              /\ orders = order_in
              /\ Resting(buy_heap) = {1} /\ Resting(sell_heap) = {2}

\* C11 case: a BUY and a crossing SELL of the same account have been
\* submitted, the buy was parked and restored, and add_order has returned.
C11_Witness ==
    /\ pc = "idle"
    /\ Len(orders) = 2
    /\ orders[1].side = "BUY" /\ orders[2].side = "SELL"
    /\ orders[1].account_id = orders[2].account_id
    /\ orders[1].limit_price >= orders[2].limit_price
    /\ Resting(buy_heap) = {1} /\ Resting(sell_heap) = {2}

\* C12: a trade's quantity is the minimum of the two remaining amounts at
\* match time; after it the order with the smaller amount rests no more and
\* the other rests with exactly the difference (neither rests when equal).
C12_PartialFill ==
    [][TradeRecorded =>
         LET t == trades'[Len(trades')]
             b == t.buy_order
             s == t.sell_order
             ab == orders[b].amount
             as == orders[s].amount
         IN  /\ t.amount_traded = Min(ab, as)
             /\ ab <= as => Copies(buy_heap', b) = 0
             /\ as <= ab => Copies(sell_heap', s) = 0
             /\ ab > as => Copies(buy_heap', b) = 1 /\ orders'[b].amount = ab - as
             /\ as > ab => Copies(sell_heap', s) = 1 /\ orders'[s].amount = as - ab
      ]_vars

\* C12 case: a buy of 2 was filled for 1, its remainder of 1 rested, and a
\* later crossing sell cleared it.
C12_Witness ==
    /\ pc = "idle"
    /\ Len(trades) = 2
    /\ trades[1].buy_order = 1 /\ trades[2].buy_order = 1
    /\ trades[1].sell_order = 2 /\ trades[2].sell_order = 3
    /\ order_in[1].amount = 2 /\ orders[1].amount = 0
    /\ buy_heap = <<>>


\* the orders of account acct resting in either heap
RestingOf(acct) ==
    {o \in Resting(buy_heap) \cup Resting(sell_heap) : orders[o].account_id = acct}

\* C13: the pending-orders reply has one key per account that has submitted an
\* order, and under it exactly that account's orders resting in either heap,
\* with their current amounts (an empty list when none rest); serving the
\* query changes no engine state.
C13_PendingQuery ==
    /\ [](response # <<>> =>
            LET r == response[1]
            IN  /\ DOMAIN r = {order_in[o].account_id : o \in 1..Len(order_in)}
                /\ \A acct \in DOMAIN r :
                      /\ {r[acct][i] : i \in 1..Len(r[acct])} =
                            {PendingOrder(orders[o]) : o \in RestingOf(acct)}
                      /\ Len(r[acct]) = Cardinality(RestingOf(acct)))
    /\ [][response' # <<>> /\ response' # response => UNCHANGED engine_vars]_vars

\* C13 case: a reply lists a partially filled order under one account and an
\* empty list under another account.
C13_Witness ==
    /\ response # <<>>
    /\ \E a1 \in DOMAIN response[1], a2 \in DOMAIN response[1] :
          /\ response[1][a2] = <<>>
          /\ \E i \in 1..Len(response[1][a1]) :
                \E o \in 1..Len(orders) :
                    /\ response[1][a1][i].order_id = o
                    /\ response[1][a1][i].amount < order_in[o].amount


\* the items of both heaps, each with the heap it is in
Items ==
    {<<"BUY", buy_heap[i]>> : i \in 1..Len(buy_heap)}
        \cup {<<"SELL", sell_heap[i]>> : i \in 1..Len(sell_heap)}

\* C14: whenever a trade is recorded, its buy order has the highest limit
\* price among all buy orders not yet fully filled whose account differs from
\* the seller's, buys parked earlier in the pass included.
C14_BuyPricePriority ==
    [][TradeRecorded =>
         LET t == trades'[Len(trades')]
         IN  \A o \in 1..Len(orders) :
                 ( /\ orders[o].side = "BUY"
                   /\ orders[o].amount > 0
                   /\ orders[o].account_id # orders[t.sell_order].account_id )
                 => orders[o].limit_price <= orders[t.buy_order].limit_price
      ]_vars

\* C15: whenever a trade is recorded, its sell order has the lowest limit
\* price among the sell orders resting at that moment, and the lowest sequence
\* number among those of that price.
C15_SellPricePriority ==
    [][TradeRecorded =>
         LET t == trades'[Len(trades')]
         IN  \E i \in 1..Len(sell_heap) :
                 /\ sell_heap[i].order = t.sell_order
                 /\ \A j \in 1..Len(sell_heap) :
                       j # i =>
                          \/ orders[sell_heap[i].order].limit_price
                                < orders[sell_heap[j].order].limit_price
                          \/ /\ orders[sell_heap[i].order].limit_price
                                   = orders[sell_heap[j].order].limit_price
                             /\ sell_heap[i].count < sell_heap[j].count
      ]_vars

\* C15 case: a trade has just been made with a sell while a sell of the same
\* price and a sell of a higher price rest.
C15_Witness ==
    /\ trade_occurred
    /\ pc = "inner"
    /\ \E i \in 1..Len(sell_heap), j \in 1..Len(sell_heap) :
          /\ orders[sell_heap[i].order].limit_price = SellOf(Len(trades)).limit_price
          /\ orders[sell_heap[j].order].limit_price > SellOf(Len(trades)).limit_price
          /\ sell_heap[i].order # trades[Len(trades)].sell_order

\* C16: every insertion into a heap is stamped with a counter value greater
\* than every value issued before; no two resident items share a sequence
\* number, and (priority, count) orders the items of a heap strictly and
\* totally.
C16_Sequencer ==
    /\ [](\A x \in Items, y \in Items :
             /\ x[2].count <= _counter
             /\ x # y => x[2].count # y[2].count
             /\ (x # y /\ x[1] = y[1]) =>
                   (HeapItemLt(x[2], y[2]) /\ ~HeapItemLt(y[2], x[2]))
                       \/ (HeapItemLt(y[2], x[2]) /\ ~HeapItemLt(x[2], y[2])))
    /\ [][/\ _counter' >= _counter
          /\ \A x \in Items' : x \notin Items => x[2].count > _counter]_vars

\* C16 case: the heaps hold a reinserted remainder of a partial fill next to
\* other items, after reinsertions of every kind have advanced the counter.
C16_Witness ==
    /\ pc = "idle"
    /\ Cardinality(Items) >= 3
    /\ _counter > 2 * Len(orders)
    /\ \E x \in Items : orders[x[2].order].amount < order_in[x[2].order].amount

\* C17: after a same-account skip, if the buy heap is not empty, the sell
\* popped in the next iteration of the pass is the sell just skipped.
C17_SkippedSellRetried ==
    [][(SkipSameAccount /\ buy_heap' # <<>>) =>
          _pop_order(sell_heap') = _pop_order(sell_heap)]_vars

\* the quantity traded on the orders of one side
FilledOnSide(side) ==
    SumSeq([o \in 1..Len(orders) |->
               IF orders[o].side = side THEN Filled(trades, o) ELSE 0])

\* C18: when add_order has returned, every order's submitted amount is its
\* remaining amount plus the quantity of the trades that reference it, and
\* the quantity filled on buy orders equals the quantity filled on sell orders.
C18_Conservation ==
    pc = "idle" =>
        /\ \A o \in 1..Len(orders) :
              order_in[o].amount = orders[o].amount + Filled(trades, o)
        /\ FilledOnSide("BUY") = FilledOnSide("SELL")

\* C18 case: add_order has returned with a partially filled order resting
\* and a fully filled one gone.
C18_Witness ==
    /\ pc = "idle"
    /\ \E o \in 1..Len(orders) : orders[o].amount > 0 /\ Filled(trades, o) > 0
    /\ \E o \in 1..Len(orders) : orders[o].amount = 0 /\ order_in[o].amount = 2

====
